---- MODULE Spec2Model ----
(***************************************************************************)
(* Model of the RAG pipeline of rag_byma: Retriever (search / _rerank),    *)
(* Evaluator (evaluate / _text_similarity / _semantic_similarity), the     *)
(* helper functions of rag_pipeline.py (ethical_guardrails,                *)
(* is_grounded_in_context, compute_metrics) and RAGPipeline                *)
(* (process_query / evaluate).                                             *)
(*                                                                         *)
(* A text is a sequence of one-character strings.  Characters outside      *)
(* ASCII are written by name: "o_acute", "O_ACUTE", "u_acute", "LF" (line  *)
(* feed), "U26A0" "UFE0F" (warning sign + variation selector), "U1F4D8"    *)
(* (blue book).  Floats that the code rounds to 3 decimals are integers    *)
(* in thousandths.                                                         *)
(***************************************************************************)
EXTENDS Integers, Sequences, FiniteSets

VARIABLES
  pc,             \* position of the running operation
  call,           \* the top-level call: [fn |-> ..., arguments]
  ret,            \* its outcome: none / return value / raised error
  idx,            \* evaluate: 1-based position in sample_questions
  results,        \* evaluate: the list of EvaluationResults collected
  search_results, \* Retriever.search: candidates from the datastore
  attempt,        \* _rerank: loop variable of `for attempt in range(5)`
  calls,          \* _rerank: co.rerank requests made in this invocation
  rate_limited,   \* _rerank: how many of them raised TooManyRequestsError
  slept,          \* _rerank: time.sleep durations since entry / the last request
  generated,      \* process_query: raw output of generate_response
  response,       \* process_query: value returned (after the guardrails)
  summary_file,   \* results/evaluation_summary.json: <<>>, or <<the metrics written>>
  file_writes,    \* how many times the summary file was opened for writing
  embed_log,      \* Evaluator: outcomes of the embeddings.create requests made
  steps           \* evaluate: what the loop has done so far, item by item

vars == <<pc, call, ret, idx, results, search_results, attempt, calls,
          rate_limited, slept, generated, response, summary_file, file_writes,
          embed_log, steps>>

pipeVars == <<idx, results, search_results, attempt, calls, rate_limited,
              slept, generated, response, summary_file, file_writes, embed_log,
              steps>>

None == [kind |-> "none"]
Return(v) == [kind |-> "return", value |-> v]
Raise(e) == [kind |-> "raise", error |-> e]

(***************************************************************************)
(* Texts                                                                   *)
(***************************************************************************)

\* str.lower(), character by character, on the letters the model uses.
LowerOf ==
  [A |-> "a", B |-> "b", C |-> "c", D |-> "d", E |-> "e", F |-> "f", G |-> "g",
   H |-> "h", I |-> "i", J |-> "j", K |-> "k", L |-> "l", M |-> "m", N |-> "n",
   O |-> "o", P |-> "p", Q |-> "q", R |-> "r", S |-> "s", T |-> "t", U |-> "u",
   V |-> "v", W |-> "w", X |-> "x", Y |-> "y", Z |-> "z",
   O_ACUTE |-> "o_acute", U_ACUTE |-> "u_acute"]

LowerChar(c) == IF c \in DOMAIN LowerOf THEN LowerOf[c] ELSE c

lower(text) == [i \in 1..Len(text) |-> LowerChar(text[i])]

\* Python's `x in s` on strings: x occurs in s as a contiguous substring.
Contains(s, x) ==
  \E i \in 1..(Len(s) - Len(x) + 1) : SubSeq(s, i, i + Len(x) - 1) = x

InvestmentRefusal ==
  <<"U26A0", "UFE0F", " ", "N", "o", " ", "s", "e", " ", "p", "e", "r", "m", "i", "t",
     "e", "n", " ", "r", "e", "c", "o", "m", "e", "n", "d", "a", "c", "i", "o", "n", "e",
     "s", " ", "d", "e", " ", "i", "n", "v", "e", "r", "s", "i", "o_acute", "n", " ", "n",
     "i", " ", "p", "r", "o", "y", "e", "c", "c", "i", "o", "n", "e", "s", " ", "f", "i",
     "n", "a", "n", "c", "i", "e", "r", "a", "s", ".">>

PredictionRefusal ==
  <<"U26A0", "UFE0F", " ", "E", "l", " ", "s", "i", "s", "t", "e", "m", "a", " ", "n",
     "o", " ", "r", "e", "a", "l", "i", "z", "a", " ", "e", "s", "t", "i", "m", "a", "c",
     "i", "o", "n", "e", "s", " ", "n", "i", " ", "p", "r", "e", "d", "i", "c", "c", "i",
     "o", "n", "e", "s", ".", " ", "S", "o", "l", "o", " ", "r", "e", "s", "u", "m", "e",
     " ", "i", "n", "f", "o", "r", "m", "a", "c", "i", "o_acute", "n", " ", "f", "a", "c",
     "t", "u", "a", "l", ".">>

SourceSuffix ==
  <<"LF", "LF", "U1F4D8", " ", "F", "u", "e", "n", "t", "e", ":", " ", "D", "o", "c",
     "u", "m", "e", "n", "t", "o", "s", " ", "I", "F", "R", "S", " ", "p", "u_acute", "b",
     "l", "i", "c", "o", "s", " ", "o", " ", "r", "e", "p", "o", "r", "t", "e", "s", " ",
     "o", "f", "i", "c", "i", "a", "l", "e", "s", ".">>

KwComprar ==
  <<"c", "o", "m", "p", "r", "a", "r">>

KwVender ==
  <<"v", "e", "n", "d", "e", "r">>

KwInversion ==
  <<"i", "n", "v", "e", "r", "s", "i", "o_acute", "n">>

KwRentabilidad ==
  <<"r", "e", "n", "t", "a", "b", "i", "l", "i", "d", "a", "d", " ", "f", "u", "t", "u",
     "r", "a">>

KwPrediccion ==
  <<"p", "r", "e", "d", "i", "c", "c", "i", "o_acute", "n">>

KwProyeccion ==
  <<"p", "r", "o", "y", "e", "c", "c", "i", "o_acute", "n">>

KwEstimado ==
  <<"e", "s", "t", "i", "m", "a", "d", "o">>

InvestmentKeywords == {KwComprar, KwVender, KwInversion, KwRentabilidad}

PredictionKeywords == {KwPrediccion, KwProyeccion, KwEstimado}

(***************************************************************************)
(* ethical_guardrails                                                      *)
(***************************************************************************)

\* Mutant: the keywords looked for in the text as it is, without lower().
ethical_guardrails_case_sensitive(response_text) ==
  IF \E x \in InvestmentKeywords : Contains(response_text, x) THEN InvestmentRefusal
  ELSE IF \E x \in PredictionKeywords : Contains(response_text, x) THEN PredictionRefusal
  ELSE response_text \o SourceSuffix

\* Mutant: the two keyword checks in the opposite order.
ethical_guardrails_prediction_first(response_text) ==
  LET lowered == lower(response_text) IN
  IF \E x \in PredictionKeywords : Contains(lowered, x) THEN PredictionRefusal
  ELSE IF \E x \in InvestmentKeywords : Contains(lowered, x) THEN InvestmentRefusal
  ELSE response_text \o SourceSuffix

ethical_guardrails(response_text) ==
  LET lowered == lower(response_text) IN
  IF \E x \in InvestmentKeywords : Contains(lowered, x) THEN InvestmentRefusal
  ELSE IF \E x \in PredictionKeywords : Contains(lowered, x) THEN PredictionRefusal
  ELSE response_text \o SourceSuffix

\* Response texts: concatenations of at most MaxFragments fragments.  The
\* fragments split keywords ("compra" + "R", "rentabilidad" + " futura") and
\* vary letter case, so keywords arise across fragment boundaries too.
MaxFragments == 2

Fragments ==
  { <<"c", "o", "m", "p", "r", "a">>,
    <<"R">>,
    <<"V", "e", "n", "d", "e", "r">>,
    <<"I", "N", "V", "E", "R", "S", "I", "O_ACUTE", "N">>,
    <<"r", "e", "n", "t", "a", "b", "i", "l", "i", "d", "a", "d">>,
    <<" ", "f", "u", "t", "u", "r", "a">>,
    <<"P", "r", "e", "d", "i", "c", "c", "i", "o_acute", "n">>,
    <<"p", "r", "o", "y", "e", "c", "c", "i", "O_ACUTE", "N">>,
    <<"e", "s", "t", "i", "m", "a", "d">>,
    <<"o">>,
    <<"e", "l", " ">>,
    <<"d", "a", "t", "o", " ">> }

RECURSIVE TextsOf(_)
TextsOf(n) ==
  IF n = 0 THEN {<<>>}
  ELSE LET shorter == TextsOf(n - 1) IN
       shorter \cup {t \o f : t \in shorter, f \in Fragments}

PipelineIdle ==
  /\ idx = 0 /\ results = <<>> /\ search_results = <<>>
  /\ attempt = 0 /\ calls = 0 /\ rate_limited = 0 /\ slept = <<>>
  /\ generated = <<>> /\ response = <<>>
  /\ summary_file = <<>> /\ file_writes = 0
  /\ embed_log = <<>> /\ steps = <<>>

\* A caller hands a response text to ethical_guardrails.
InitGuardrails ==
  /\ pc = "called"
  /\ call \in {[fn |-> "ethical_guardrails", response_text |-> t] :
               t \in TextsOf(MaxFragments)}
  /\ ret = None
  /\ PipelineIdle

CallEthicalGuardrails ==
  /\ pc = "called"
  /\ call.fn = "ethical_guardrails"
  /\ ret' = Return(ethical_guardrails(call.response_text))
  /\ pc' = "done"
  /\ UNCHANGED <<call, pipeVars>>

SpecGuardrails == InitGuardrails /\ [][CallEthicalGuardrails]_vars

\* Case-insensitive substring occurrence, stated position by position.
OccursIgnoringCase(text, kw) ==
  \E i \in 0..(Len(text) - Len(kw)) :
    \A k \in 1..Len(kw) : LowerChar(text[i + k]) = kw[k]

HasInvestmentKeyword(text) ==
  \E kw \in InvestmentKeywords : OccursIgnoringCase(text, kw)

HasPredictionKeyword(text) ==
  \E kw \in PredictionKeywords : OccursIgnoringCase(text, kw)

\* C2: a response text holding an investment keyword is answered with exactly
\* the investment refusal, whatever else it holds (prediction keywords too).
C2_InvestmentTakesPrecedence ==
  (pc = "done" /\ HasInvestmentKeyword(call.response_text))
    => ret = Return(InvestmentRefusal)

C2_Witness ==
  /\ pc = "done"
  /\ HasInvestmentKeyword(call.response_text)
  /\ HasPredictionKeyword(call.response_text)
  /\ ret = Return(InvestmentRefusal)

(***************************************************************************)
(* is_grounded_in_context                                                  *)
(***************************************************************************)

IsSpace(c) == c \in {" ", "LF"}

\* str.split() without arguments: the maximal runs of non-whitespace, in
\* order.  From position i: skip the whitespace, take the run up to the next
\* whitespace or the end, go on behind it.
RECURSIVE SplitFrom(_, _, _)
SplitFrom(s, i, acc) ==
  LET rest == {k \in i..Len(s) : ~IsSpace(s[k])} IN
  IF rest = {} THEN acc
  ELSE LET first == CHOOSE k \in rest : \A m \in rest : k <= m
           gaps == {k \in first..Len(s) : IsSpace(s[k])}
           stop == IF gaps = {} THEN Len(s) + 1
                   ELSE CHOOSE k \in gaps : \A m \in gaps : k <= m
       IN SplitFrom(s, stop, Append(acc, SubSeq(s, first, stop - 1)))

split(s) == SplitFrom(s, 1, <<>>)

\* sep.join(list)
RECURSIVE join(_, _)
join(sep, list) ==
  IF list = <<>> THEN <<>>
  ELSE IF Len(list) = 1 THEN list[1]
  ELSE list[1] \o sep \o join(sep, Tail(list))

Range(f) == {f[i] : i \in DOMAIN f}

Max(a, b) == IF a >= b THEN a ELSE b

\* Mutant: the denominator counts the distinct tokens of the response.
is_grounded_distinct_denominator(resp_text, context_list) ==
  LET context_text == lower(join(<<" ">>, context_list))
      resp == lower(resp_text)
      common == Range(split(resp)) \cap Range(split(context_text))
  IN Cardinality(common) * 20 > 3 * Max(1, Cardinality(Range(split(resp))))

\* match_ratio = len(set & set) / max(1, len(resp.split())); match_ratio > 0.15.
\* The float quotient exceeds the float 0.15 exactly when 20 * n > 3 * d.
is_grounded_in_context(resp_text, context_list) ==
  LET context_text == lower(join(<<" ">>, context_list))
      resp == lower(resp_text)
      common == Range(split(resp)) \cap Range(split(context_text))
  IN Cardinality(common) * 20 > 3 * Max(1, Len(split(resp)))

MaxRespFragments == 3

MaxContexts == 2

RespFragments ==
  { <<"a", " ">>,
    <<"B", " ", "b", "LF", "B", " ">>,
    <<"c">>,
    <<" ">>,
    <<"A">> }

ContextTexts == { <<"a">>, <<"b", " ", "C">>, <<>> }

RECURSIVE RespTextsOf(_)
RespTextsOf(n) ==
  IF n = 0 THEN {<<>>}
  ELSE LET shorter == RespTextsOf(n - 1) IN
       shorter \cup {t \o f : t \in shorter, f \in RespFragments}

ContextLists ==
  UNION {[1..n -> ContextTexts] : n \in 0..MaxContexts}

InitGrounded ==
  /\ pc = "called"
  /\ call \in {[fn |-> "is_grounded_in_context", response |-> r, context_list |-> c] :
               r \in RespTextsOf(MaxRespFragments), c \in ContextLists}
  /\ ret = None
  /\ PipelineIdle

CallIsGrounded ==
  /\ pc = "called"
  /\ call.fn = "is_grounded_in_context"
  /\ ret' = Return(is_grounded_in_context(call.response, call.context_list))
  /\ pc' = "done"
  /\ UNCHANGED <<call, pipeVars>>

SpecGrounded == InitGrounded /\ [][CallIsGrounded]_vars

\* Whitespace tokens stated by position: a token starts where a non-space
\* character follows the start of the text or a space, and runs to the next
\* space or the end.
TokenStarts(s) ==
  {i \in 1..Len(s) : ~IsSpace(s[i]) /\ (i = 1 \/ IsSpace(s[i - 1]))}

TokenAt(s, i) ==
  LET last == CHOOSE j \in i..Len(s) :
                /\ \A k \in i..j : ~IsSpace(s[k])
                /\ (j = Len(s) \/ IsSpace(s[j + 1]))
  IN SubSeq(s, i, last)

LoweredTokens(s) == {TokenAt(lower(s), i) : i \in TokenStarts(s)}

ContextTokens(context_list) ==
  UNION {LoweredTokens(context_list[n]) : n \in DOMAIN context_list}

SharedTokens(resp_text, context_list) ==
  Cardinality(LoweredTokens(resp_text) \cap ContextTokens(context_list))

\* C5 as stated: the denominator is the number of DISTINCT response tokens.
C5_DistinctDenominator ==
  pc = "done" =>
    ret = Return(SharedTokens(call.response, call.context_list) * 20
                 > 3 * Max(1, Cardinality(LoweredTokens(call.response))))

\* C5 amended: the denominator is the number of whitespace tokens of the
\* response counted with repetitions (minimum 1); the numerator is the number
\* of distinct lower-cased response tokens that occur in the context.
C5_TotalDenominator ==
  pc = "done" =>
    ret = Return(SharedTokens(call.response, call.context_list) * 20
                 > 3 * Max(1, Cardinality(TokenStarts(call.response))))

\* A response with a repeated token whose verdict the repetition decides.
C5_Witness ==
  /\ pc = "done"
  /\ Cardinality(TokenStarts(call.response))
       > Cardinality(LoweredTokens(call.response))
  /\ SharedTokens(call.response, call.context_list) * 20
       > 3 * Cardinality(LoweredTokens(call.response))
  /\ ret = Return(FALSE)

(***************************************************************************)
(* round(x, 3) on a float quotient                                         *)
(***************************************************************************)

\* 2^times modulo n, by squaring.
RECURSIVE PowerOfTwoMod(_, _)
PowerOfTwoMod(times, n) ==
  IF times = 0 THEN 1 % n
  ELSE IF times % 2 = 0
       THEN LET half == PowerOfTwoMod(times \div 2, n) IN (half * half) % n
       ELSE (2 * PowerOfTwoMod(times - 1, n)) % n

RECURSIVE BinaryShift(_, _, _)
BinaryShift(num, den, k) ==
  IF num >= den THEN k ELSE BinaryShift(2 * num, den, k + 1)

\* The sign of fl(num/den) - num/den for 0 < num < den, where fl is the IEEE
\* double nearest to the quotient (53 significant bits, round to nearest): the
\* bits dropped after the 53rd are more, or less, than half a unit.
FloatErrorSign(num, den) ==
  LET bits == 52 + BinaryShift(num, den, 0)
      dropped == ((num % den) * PowerOfTwoMod(bits, den)) % den
  IN IF dropped = 0 THEN 0 ELSE IF 2 * dropped > den THEN 1 ELSE -1

\* round(num / den, digits) in units of 1/scale (scale = 10^digits), for
\* 0 <= num <= den: Python rounds the double num/den correctly, ties of the
\* double's exact value going to the even neighbour.  A decimal tie of the
\* exact quotient is decided by the side on which the double fell.
PyRound(num, den, scale) ==
  LET q == (scale * num) \div den
      rem == (scale * num) % den
      side == IF num % den = 0 THEN 0 ELSE FloatErrorSign(num, den)
  IN IF 2 * rem < den THEN q
     ELSE IF 2 * rem > den THEN q + 1
     ELSE IF side > 0 THEN q + 1
     ELSE IF side < 0 THEN q
     ELSE IF q % 2 = 0 THEN q ELSE q + 1

(***************************************************************************)
(* compute_metrics                                                         *)
(***************************************************************************)

\* sum(... for r in results): how many results a test holds of.
Count(tests) == Cardinality({i \in DOMAIN tests : tests[i]})

\* Defined for a non-empty list; on an empty one the code divides by zero.
compute_metrics(list) ==
  LET total == Len(list)
      IsGrounded(r) == is_grounded_in_context(r.response, <<r.expected_answer>>)
      correct == Count([i \in DOMAIN list |-> list[i].is_correct])
      grounded == Count([i \in DOMAIN list |-> IsGrounded(list[i])])
      hallucinated == Count([i \in DOMAIN list |-> ~IsGrounded(list[i])])
  IN [accuracy |-> PyRound(correct, total, 1000),
      groundedness |-> PyRound(grounded, total, 1000),
      hallucination_rate |-> PyRound(hallucinated, total, 1000)]

CallOfComputeMetrics(list) ==
  IF Len(list) = 0 THEN Raise("ZeroDivisionError")
  ELSE Return(compute_metrics(list))

MaxBatchResults == 80

MaxNotGrounded == 3

\* The kinds of EvaluationResult a batch is made of: grounded and correct,
\* not grounded and incorrect, not grounded but judged correct.
ResultKinds ==
  << [question |-> "q1", response |-> <<"a">>, expected_answer |-> <<"A">>,
      is_correct |-> TRUE, reasoning |-> <<>>],
     [question |-> "q2", response |-> <<"b">>, expected_answer |-> <<"a">>,
      is_correct |-> FALSE, reasoning |-> <<>>],
     [question |-> "q3", response |-> <<"c", " ", "b">>, expected_answer |-> <<"a">>,
      is_correct |-> TRUE, reasoning |-> <<>>] >>

\* n1 results of the first kind, then n2 of the second, then n3 of the third.
BatchOf(n1, n2, n3) ==
  [i \in 1..(n1 + n2 + n3) |->
     IF i <= n1 THEN ResultKinds[1]
     ELSE IF i <= n1 + n2 THEN ResultKinds[2] ELSE ResultKinds[3]]

\* Batches of at most MaxBatchResults results, at most MaxNotGrounded of them
\* not grounded.
InitMetrics ==
  /\ pc = "called"
  /\ \E n2 \in 0..MaxNotGrounded :
       \E n3 \in 0..(MaxNotGrounded - n2) :
         \E n1 \in 0..(MaxBatchResults - n2 - n3) :
           call = [fn |-> "compute_metrics", results |-> BatchOf(n1, n2, n3)]
  /\ ret = None
  /\ PipelineIdle

CallComputeMetrics ==
  /\ pc = "called"
  /\ call.fn = "compute_metrics"
  /\ ret' = CallOfComputeMetrics(call.results)
  /\ pc' = "done"
  /\ UNCHANGED <<call, pipeVars>>

SpecMetrics == InitMetrics /\ [][CallComputeMetrics]_vars

BatchCorrect == Cardinality({i \in DOMAIN call.results : call.results[i].is_correct})

BatchGrounded ==
  Cardinality({i \in DOMAIN call.results :
     is_grounded_in_context(call.results[i].response,
                            <<call.results[i].expected_answer>>)})

\* C6: on a non-empty batch of N results with C correct and G grounded the
\* metrics are C/N, G/N and (N-G)/N rounded to 3 decimals, and the returned
\* groundedness and hallucination_rate add up to exactly 1.0.
C6_MetricsSumToOne ==
  (pc = "done" /\ Len(call.results) > 0) =>
    /\ ret.kind = "return"
    /\ ret.value.accuracy = PyRound(BatchCorrect, Len(call.results), 1000)
    /\ ret.value.groundedness = PyRound(BatchGrounded, Len(call.results), 1000)
    /\ ret.value.hallucination_rate
         = PyRound(Len(call.results) - BatchGrounded, Len(call.results), 1000)
    /\ ret.value.groundedness + ret.value.hallucination_rate = 1000

(***************************************************************************)
(* Evaluator                                                               *)
(***************************************************************************)

\* Length of the common run of a from i and b from j, inside a[..ahi], b[..bhi].
RECURSIVE RunLength(_, _, _, _, _, _)
RunLength(a, b, i, j, ahi, bhi) ==
  IF i > ahi \/ j > bhi THEN 0
  ELSE IF a[i] # b[j] THEN 0
  ELSE 1 + RunLength(a, b, i + 1, j + 1, ahi, bhi)

\* difflib.SequenceMatcher.find_longest_match without junk: the longest block
\* common to a[alo..ahi] and b[blo..bhi]; of the longest, the one starting
\* earliest in a, and of those the one starting earliest in b.
find_longest_match(a, b, alo, ahi, blo, bhi) ==
  LET starts == (alo..ahi) \X (blo..bhi)
      size(p) == RunLength(a, b, p[1], p[2], ahi, bhi)
      best == CHOOSE n \in {size(p) : p \in starts} :
                \A p \in starts : size(p) <= n
      longest == {p \in starts : size(p) = best}
      besti == CHOOSE i \in {p[1] : p \in longest} :
                 \A p \in longest : i <= p[1]
      bestj == CHOOSE j \in {p[2] : p \in {q \in longest : q[1] = besti}} :
                 \A p \in {q \in longest : q[1] = besti} : j <= p[2]
  IN [i |-> besti, j |-> bestj, size |-> best]

\* The total size of get_matching_blocks(): the longest block, then the same
\* to its left and to its right.
RECURSIVE MatchedChars(_, _, _, _, _, _)
MatchedChars(a, b, alo, ahi, blo, bhi) ==
  IF alo > ahi \/ blo > bhi THEN 0
  ELSE LET m == find_longest_match(a, b, alo, ahi, blo, bhi) IN
       IF m.size = 0 THEN 0
       ELSE m.size
            + MatchedChars(a, b, alo, m.i - 1, blo, m.j - 1)
            + MatchedChars(a, b, m.i + m.size, ahi, m.j + m.size, bhi)

\* round(SequenceMatcher(None, a, b).ratio(), 3), in thousandths.
\* ratio() is 2.0 * matches / (len(a) + len(b)), and 1.0 when both are empty.
RoundedRatio(a, b) ==
  IF Len(a) + Len(b) = 0 THEN 1000
  ELSE PyRound(2 * MatchedChars(a, b, 1, Len(a), 1, Len(b)), Len(a) + Len(b), 1000)

_text_similarity(text_a, text_b) == RoundedRatio(lower(text_a), lower(text_b))

\* The value None in place of a str: no text, since a text's elements are
\* single characters.
PyNone == <<"None">>

AttributeErrorMessage == "'NoneType' object has no attribute 'lower'"

\* Mutant: an embedding failure is raised to evaluate instead of scored 0.0.
semantic_similarity_reraising(embedding) ==
  IF embedding.kind = "error" THEN Raise(embedding.message)
  ELSE Return(embedding.milli)

\* _semantic_similarity, given what the embeddings request came to: the
\* rounded cosine of the two vectors, or an exception (the request failing,
\* a zero norm), which is caught, printed and turned into 0.0.
_semantic_similarity(embedding) ==
  IF embedding.kind = "error" THEN Return(0)
  ELSE Return(embedding.milli)

\* f"{x:.2f}" of a float of thousandths, in hundredths.
Format2(milli) == PyRound(milli, 1000, 100)

\* The pieces a reasoning string is put together from: literal text and
\* formatted numbers.
Txt(s) == [text |-> s]

Num(milli) == [hundredths |-> Format2(milli)]

SimilarityThreshold == 750

SemanticThreshold == 800

EvaluationResult(question, resp, expected_answer, is_correct, reasoning) ==
  [question |-> question, response |-> resp, expected_answer |-> expected_answer,
   is_correct |-> is_correct, reasoning |-> reasoning]

VerdictText(is_correct) ==
  IF is_correct THEN "La respuesta coincide con la esperada o es semanticamente equivalente."
  ELSE "La respuesta no coincide ni semanticamente con la esperada."

\* Mutant: the semantic check is made whatever the literal similarity.
evaluate_always_semantic(question, resp, expected_answer, embedding) ==
  IF resp = PyNone
  THEN [result |-> EvaluationResult(question, resp, expected_answer, FALSE,
                     <<Txt("Error en evaluacion: "), Txt(AttributeErrorMessage)>>),
        requests |-> <<>>]
  ELSE
    LET similarity == _text_similarity(resp, expected_answer)
        semantic == _semantic_similarity(embedding)
        is_correct == similarity >= SimilarityThreshold
                        \/ semantic.value >= SemanticThreshold
    IN [result |-> EvaluationResult(question, resp, expected_answer, is_correct,
                     <<Txt("Similarity: "), Num(similarity), Txt(". "),
                       Txt("Semantic Similarity: "), Num(semantic.value), Txt(". "),
                       Txt(VerdictText(is_correct))>>),
        requests |-> <<embedding>>]

\* Evaluator.evaluate.  `embedding` is what an embeddings request comes to if
\* one is made.  The value is the EvaluationResult returned and the requests
\* made; no path raises.
evaluate(question, resp, expected_answer, embedding) ==
  IF resp = PyNone
  THEN \* _text_similarity raises AttributeError; the except clause answers
       [result |-> EvaluationResult(question, resp, expected_answer, FALSE,
                     <<Txt("Error en evaluacion: "), Txt(AttributeErrorMessage)>>),
        requests |-> <<>>]
  ELSE
    LET similarity == _text_similarity(resp, expected_answer)
        literal_ok == similarity >= SimilarityThreshold
        semantic == _semantic_similarity(embedding)
    IN IF literal_ok
       THEN [result |-> EvaluationResult(question, resp, expected_answer, TRUE,
                          <<Txt("Similarity: "), Num(similarity), Txt(". "),
                            Txt(VerdictText(TRUE))>>),
             requests |-> <<>>]
       ELSE IF semantic.kind = "raise"
       THEN [result |-> EvaluationResult(question, resp, expected_answer, FALSE,
                          <<Txt("Error en evaluacion: "), Txt(semantic.error)>>),
             requests |-> <<embedding>>]
       ELSE [result |-> EvaluationResult(question, resp, expected_answer,
                          semantic.value >= SemanticThreshold,
                          <<Txt("Similarity: "), Num(similarity), Txt(". "),
                            Txt("Semantic Similarity: "), Num(semantic.value), Txt(". "),
                            Txt(VerdictText(semantic.value >= SemanticThreshold))>>),
             requests |-> <<embedding>>]

MaxTextLen == 4

RECURSIVE StringsOver(_, _)
StringsOver(alphabet, n) ==
  IF n = 0 THEN {<<>>}
  ELSE LET shorter == StringsOver(alphabet, n - 1) IN
       shorter \cup {Append(t, c) : t \in shorter, c \in alphabet}

ExpectedAnswers ==
  { <<>>, <<"a">>, <<"b">>, <<"a", "b">>, <<"b", "a", "b">>,
    <<"a", "a", "a", "b">>, <<"a", "b", "a", "b">>, <<"b", "b", "a", "a", "b">> }

EmbeddingOutcomes ==
  {[kind |-> "cosine", milli |-> v] : v \in {0, 125, 799, 800, 1000}}
    \cup {[kind |-> "error", message |-> "Rate limit reached for text-embedding-3-small"]}

InitEvaluator ==
  /\ pc = "called"
  /\ call \in {[fn |-> "Evaluator.evaluate", question |-> "q1",
                response |-> r, expected_answer |-> e] :
               r \in StringsOver({"a", "A", "b"}, MaxTextLen) \cup {PyNone},
               e \in ExpectedAnswers}
  /\ ret = None
  /\ PipelineIdle

CallEvaluatorEvaluate ==
  /\ pc = "called"
  /\ call.fn = "Evaluator.evaluate"
  /\ \E embedding \in EmbeddingOutcomes :
       LET done == evaluate(call.question, call.response, call.expected_answer,
                            embedding)
       IN /\ ret' = Return(done.result)
          /\ embed_log' = embed_log \o done.requests
  /\ pc' = "done"
  /\ UNCHANGED <<call, idx, results, search_results, attempt, calls, rate_limited,
                 slept, generated, response, summary_file, file_writes, steps>>

SpecEvaluator == InitEvaluator /\ [][CallEvaluatorEvaluate]_vars

EmbeddingFailures == {n \in DOMAIN embed_log : embed_log[n].kind = "error"}

\* C4 as stated: evaluate never raises, and an exception during either
\* comparison gives is_correct = false and a reasoning that embeds its message.
C4_EveryExceptionInReasoning ==
  pc = "done" =>
    /\ ret.kind = "return"
    /\ call.response = PyNone =>
         /\ ~ret.value.is_correct
         /\ Txt(AttributeErrorMessage) \in Range(ret.value.reasoning)
    /\ \A n \in EmbeddingFailures :
         /\ ~ret.value.is_correct
         /\ Txt(embed_log[n].message) \in Range(ret.value.reasoning)

\* C4 amended: evaluate never raises; an exception of the literal comparison
\* gives is_correct = false and a reasoning that embeds its message; an
\* exception of the embedding-based comparison is absorbed as the score 0.0,
\* so the result is incorrect and the reasoning reports the literal similarity
\* and "Semantic Similarity: 0.00", not the error message.
C4_ExceptionsAbsorbed ==
  pc = "done" =>
    /\ ret.kind = "return"
    /\ call.response = PyNone =>
         /\ ~ret.value.is_correct
         /\ ret.value.reasoning = <<Txt("Error en evaluacion: "), Txt(AttributeErrorMessage)>>
    /\ \A n \in EmbeddingFailures :
         /\ ~ret.value.is_correct
         /\ Txt(embed_log[n].message) \notin Range(ret.value.reasoning)
         /\ SubSeq(ret.value.reasoning, 4, 5) = <<Txt("Semantic Similarity: "), Num(0)>>

C4_Witness ==
  /\ pc = "done"
  /\ EmbeddingFailures # {}
  /\ ret.kind = "return"
  /\ ~ret.value.is_correct

SharedCharacters(a, b) == Range(lower(a)) \cap Range(lower(b))

\* C9: with no exception, is_correct holds exactly when the literal similarity
\* is >= 0.75, or it is below and the semantic similarity is >= 0.80; the
\* embeddings request is made exactly when the literal similarity is < 0.75.
\* A response equal to the expected answer up to letter case is correct with
\* no request; texts with no character in common get the request and are
\* judged by the semantic similarity alone.
C9_VerdictAndSemanticCall ==
  (pc = "done" /\ call.response # PyNone /\ EmbeddingFailures = {}) =>
    LET literal == _text_similarity(call.response, call.expected_answer) IN
    /\ Len(embed_log) = (IF literal < 750 THEN 1 ELSE 0)
    /\ ret.value.is_correct
         <=> (literal >= 750 \/ (literal < 750 /\ embed_log[1].milli >= 800))
    /\ lower(call.response) = lower(call.expected_answer) =>
         (ret.value.is_correct /\ embed_log = <<>>)
    /\ (SharedCharacters(call.response, call.expected_answer) = {}
        /\ Len(call.response) + Len(call.expected_answer) > 0) =>
         /\ Len(embed_log) = 1
         /\ ret.value.is_correct <=> embed_log[1].milli >= 800

C9_Witness ==
  /\ pc = "done"
  /\ call.response # PyNone
  /\ call.response # call.expected_answer
  /\ lower(call.response) = lower(call.expected_answer)
  /\ ret.value.is_correct
  /\ embed_log = <<>>

(***************************************************************************)
(* Retriever.search / _rerank, RAGPipeline.process_query / evaluate        *)
(***************************************************************************)

MaxBatch == 2

MaxDocs == 2

\* The {question, answer} pairs a batch is drawn from.
Samples ==
  { [question |-> "q1", answer |-> <<"a">>],
    [question |-> "q2", answer |-> <<"b">>] }

Batches == UNION {[1..n -> Samples] : n \in 0..MaxBatch}

\* What the datastore may return for a query: the first n stored chunks.
Chunks == <<"d1", "d2", "d3">>

CandidateLists == {SubSeq(Chunks, 1, n) : n \in 0..MaxDocs}

\* The orders in which the reranker may return the indices of n documents
\* (top_n = 10 is above the number of candidates, so all are returned).
IndexOrders(n) ==
  {order \in [1..n -> 1..n] : \A i, j \in 1..n : order[i] = order[j] => i = j}

\* What the chat model may answer.
GeneratedResponses ==
  { <<"a">>,
    <<"c", "o", "m", "p", "r", "a", "r">>,
    <<"L", "a", " ", "P", "r", "e", "d", "i", "c", "c", "i", "o_acute", "n">>,
    <<"p", "r", "e", "d", "i", "c", "c", "i", "o_acute", "n", " ", "d", "e", " ",
      "I", "N", "V", "E", "R", "S", "I", "O_ACUTE", "N">> }

\* What an embeddings request of the evaluator may come to.
PipelineEmbeddings ==
  { [kind |-> "cosine", milli |-> 1000],
    [kind |-> "error", message |-> "Rate limit reached for text-embedding-3-small"] }

Step(op, item) == [op |-> op, item |-> item]

InEvaluate == call.fn = "RAGPipeline.evaluate"

RerankExhaustedError == "Demasiados intentos fallidos con Cohere"

Init ==
  /\ pc = "start"
  /\ call \in {[fn |-> "RAGPipeline.evaluate", sample_questions |-> b] : b \in Batches}
            \cup {[fn |-> "RAGPipeline.process_query", query |-> q] : q \in {"q1", "q2"}}
  /\ ret = None
  /\ PipelineIdle

\* Mutant: evaluate catches the exception and goes on with the next pair.
PropagateCaughtInLoop(error) ==
  /\ ret' = ret
  /\ pc' = "ev_loop"

\* An exception nothing catches: neither process_query nor evaluate has a
\* try block, so it ends the top-level call.
Propagate(error) ==
  /\ ret' = Raise(error)
  /\ pc' = "done"

\* evaluate: the `for q, expected in zip(...)` loop takes the next pair.
EvaluateNextPair ==
  /\ InEvaluate
  /\ pc \in {"start", "ev_loop"}
  /\ idx < Len(call.sample_questions)
  /\ idx' = idx + 1
  /\ pc' = "ev_sleep"
  /\ UNCHANGED <<call, ret, results, search_results, attempt, calls, rate_limited,
                 slept, generated, response, summary_file, file_writes, embed_log,
                 steps>>

\* Mutant: the loop body without its time.sleep(6).
EvaluateSleepSkipped ==
  /\ InEvaluate
  /\ pc = "ev_sleep"
  /\ pc' = "process_query"
  /\ UNCHANGED <<call, ret, idx, results, search_results, attempt, calls,
                 rate_limited, slept, generated, response, summary_file,
                 file_writes, embed_log, steps>>

\* evaluate: time.sleep(6) at the top of the loop body.
EvaluateSleep ==
  /\ InEvaluate
  /\ pc = "ev_sleep"
  /\ steps' = Append(steps, Step("time.sleep(6)", idx))
  /\ pc' = "process_query"
  /\ UNCHANGED <<call, ret, idx, results, search_results, attempt, calls,
                 rate_limited, slept, generated, response, summary_file,
                 file_writes, embed_log>>

\* process_query is entered (from _evaluate_single_question, or called
\* directly) and Retriever.search asks the datastore for candidates.
DatastoreSearch ==
  /\ \/ InEvaluate /\ pc = "process_query"
     \/ call.fn = "RAGPipeline.process_query" /\ pc = "start"
  /\ search_results' \in CandidateLists
  /\ steps' = IF InEvaluate THEN Append(steps, Step("process_query", idx)) ELSE steps
  /\ attempt' = 0 /\ calls' = 0 /\ rate_limited' = 0 /\ slept' = <<>>
  /\ generated' = <<>> /\ response' = <<>>
  /\ pc' = "rerank_entry"
  /\ UNCHANGED <<call, ret, idx, results, summary_file, file_writes, embed_log>>

\* _rerank: time.sleep(6) before the loop.
RerankPreCallDelay ==
  /\ pc = "rerank_entry"
  /\ slept' = Append(slept, 6)
  /\ pc' = "rerank_loop"
  /\ UNCHANGED <<call, ret, idx, results, search_results, attempt, calls,
                 rate_limited, generated, response, summary_file, file_writes,
                 embed_log, steps>>

\* Mutant: one attempt more than range(5) gives.
RerankAttemptsPlusOne == 5 + 1

\* range(5)
RerankAttempts == 5

\* _rerank: the loop has an attempt left; time.sleep(10) opens its body.
RerankPreRequestDelay ==
  /\ pc = "rerank_loop"
  /\ attempt < RerankAttempts
  /\ slept' = Append(slept, 10)
  /\ pc' = "rerank_request"
  /\ UNCHANGED <<call, ret, idx, results, search_results, attempt, calls,
                 rate_limited, generated, response, summary_file, file_writes,
                 embed_log, steps>>

\* _rerank: the loop ran out without a break; its else clause raises
\* RuntimeError, which search, process_query and evaluate let through.
RerankExhausted ==
  /\ pc = "rerank_loop"
  /\ attempt >= RerankAttempts
  /\ Propagate(RerankExhaustedError)
  /\ UNCHANGED <<call, idx, results, search_results, attempt, calls, rate_limited,
                 slept, generated, response, summary_file, file_writes, embed_log,
                 steps>>

\* _rerank: co.rerank answers; break; the candidates are returned in the
\* order of the returned indices, to process_query.
RerankSucceeds ==
  /\ pc = "rerank_request"
  /\ calls' = calls + 1
  /\ slept' = <<>>
  /\ \E order \in IndexOrders(Len(search_results)) :
       search_results' = [i \in 1..Len(order) |-> search_results[order[i]]]
  /\ pc' = "generate"
  /\ UNCHANGED <<call, ret, idx, results, attempt, rate_limited, generated,
                 response, summary_file, file_writes, embed_log, steps>>

\* _rerank: co.rerank raises TooManyRequestsError, which the loop catches.
RerankRateLimited ==
  /\ pc = "rerank_request"
  /\ calls' = calls + 1
  /\ rate_limited' = rate_limited + 1
  /\ slept' = <<>>
  /\ pc' = "rerank_backoff"
  /\ UNCHANGED <<call, ret, idx, results, search_results, attempt, generated,
                 response, summary_file, file_writes, embed_log, steps>>

\* _rerank: co.rerank raises an error other than TooManyRequestsError, which
\* the loop does not catch.
RerankOtherError ==
  /\ pc = "rerank_request"
  /\ calls' = calls + 1
  /\ slept' = <<>>
  /\ Propagate("cohere.errors.ApiError")
  /\ UNCHANGED <<call, idx, results, search_results, attempt, rate_limited,
                 generated, response, summary_file, file_writes, embed_log, steps>>

\* Mutant: the same wait after every failure.
RerankBackoffConstant ==
  /\ pc = "rerank_backoff"
  /\ slept' = Append(slept, 10)
  /\ attempt' = attempt + 1
  /\ pc' = "rerank_loop"
  /\ UNCHANGED <<call, ret, idx, results, search_results, calls, rate_limited,
                 generated, response, summary_file, file_writes, embed_log, steps>>

\* _rerank: the except clause waits 10 * (attempt + 1) seconds; the loop goes on.
RerankBackoff ==
  /\ pc = "rerank_backoff"
  /\ slept' = Append(slept, 10 * (attempt + 1))
  /\ attempt' = attempt + 1
  /\ pc' = "rerank_loop"
  /\ UNCHANGED <<call, ret, idx, results, search_results, calls, rate_limited,
                 generated, response, summary_file, file_writes, embed_log, steps>>

\* process_query: response_generator.generate_response(query, search_results).
GenerateResponse ==
  /\ pc = "generate"
  /\ generated' \in GeneratedResponses
  /\ pc' = "guardrails"
  /\ UNCHANGED <<call, ret, idx, results, search_results, attempt, calls,
                 rate_limited, slept, response, summary_file, file_writes,
                 embed_log, steps>>

\* process_query: response = ethical_guardrails(response); return response.
\* The locals of the finished search go out of scope.
ApplyGuardrails ==
  /\ pc = "guardrails"
  /\ response' = ethical_guardrails(generated)
  /\ search_results' = <<>>
  /\ attempt' = 0 /\ calls' = 0 /\ rate_limited' = 0 /\ slept' = <<>>
  /\ IF InEvaluate
     THEN pc' = "ev_evaluate" /\ ret' = ret
     ELSE pc' = "done" /\ ret' = Return(response')
  /\ UNCHANGED <<call, idx, results, generated, summary_file, file_writes,
                 embed_log, steps>>

\* _evaluate_single_question: evaluator.evaluate(question, response,
\* expected_answer); evaluate: results.append(r).  The locals of the finished
\* process_query go out of scope.
EvaluateAnswer ==
  /\ InEvaluate
  /\ pc = "ev_evaluate"
  /\ \E embedding \in PipelineEmbeddings :
       LET item == call.sample_questions[idx]
           done == evaluate(item.question, response, item.answer, embedding)
       IN /\ results' = Append(results, done.result)
          /\ embed_log' = embed_log \o done.requests
  /\ steps' = Append(steps, Step("Evaluator.evaluate", idx))
  /\ generated' = <<>> /\ response' = <<>>
  /\ pc' = "ev_loop"
  /\ UNCHANGED <<call, ret, idx, search_results, attempt, calls, rate_limited,
                 slept, summary_file, file_writes>>

\* evaluate: the loop is over; metrics = compute_metrics(results), which
\* divides by len(results).
EvaluateComputeMetrics ==
  /\ InEvaluate
  /\ pc \in {"start", "ev_loop"}
  /\ idx >= Len(call.sample_questions)
  /\ IF CallOfComputeMetrics(results).kind = "raise"
     THEN Propagate(CallOfComputeMetrics(results).error)
     ELSE pc' = "ev_write" /\ ret' = ret
  /\ UNCHANGED <<call, idx, results, search_results, attempt, calls, rate_limited,
                 slept, generated, response, summary_file, file_writes, embed_log,
                 steps>>

\* evaluate: open("results/evaluation_summary.json", "w"); json.dump(metrics).
EvaluateWriteSummary ==
  /\ InEvaluate
  /\ pc = "ev_write"
  /\ summary_file' = <<compute_metrics(results)>>
  /\ file_writes' = file_writes + 1
  /\ steps' = Append(steps, Step("write summary", idx))
  /\ pc' = "ev_return"
  /\ UNCHANGED <<call, ret, idx, results, search_results, attempt, calls,
                 rate_limited, slept, generated, response, embed_log>>

\* evaluate: return results.
EvaluateReturn ==
  /\ InEvaluate
  /\ pc = "ev_return"
  /\ ret' = Return(results)
  /\ pc' = "done"
  /\ UNCHANGED <<call, pipeVars>>

Next ==
  \/ EvaluateNextPair
  \/ EvaluateSleep
  \/ DatastoreSearch
  \/ RerankPreCallDelay
  \/ RerankPreRequestDelay
  \/ RerankExhausted
  \/ RerankSucceeds
  \/ RerankRateLimited
  \/ RerankOtherError
  \/ RerankBackoff
  \/ GenerateResponse
  \/ ApplyGuardrails
  \/ EvaluateAnswer
  \/ EvaluateComputeMetrics
  \/ EvaluateWriteSummary
  \/ EvaluateReturn

Spec == Init /\ [][Next]_vars

RerankStates == {"rerank_entry", "rerank_loop", "rerank_request", "rerank_backoff"}

\* C1: when every rerank request of a search is rate-limited, the search
\* makes exactly 5 requests and then fails with the fatal error; it returns no
\* list, and no search ever makes a 6th request.
C1_FiveCallsThenFatal ==
  /\ calls <= 5
  /\ (pc \notin RerankStates /\ calls > 0 /\ rate_limited = calls) =>
       /\ calls = 5
       /\ pc = "done"
       /\ ret = Raise(RerankExhaustedError)

C1_Witness ==
  /\ pc = "done"
  /\ calls = 5
  /\ rate_limited = 5
  /\ ret = Raise(RerankExhaustedError)

\* process_query has returned; `response` is the string it returned.
ProcessQueryReturned ==
  \/ InEvaluate /\ pc = "ev_evaluate"
  \/ call.fn = "RAGPipeline.process_query" /\ pc = "done" /\ ret = Return(response)

\* C3 as stated: whenever the generator's output contains "prediccion", with
\* o acute, process_query returns the prediction refusal.
C3_PredictionAlwaysRefused ==
  (ProcessQueryReturned /\ Contains(generated, KwPrediccion))
    => response = PredictionRefusal

\* C3 amended: whenever the generator's output contains "prediccion" (in any
\* letter case) and no investment keyword, process_query returns the
\* prediction refusal verbatim; with an investment keyword it returns the
\* investment refusal.
C3_PredictionRefusedUnlessInvestment ==
  (ProcessQueryReturned /\ OccursIgnoringCase(generated, KwPrediccion))
    => response = (IF HasInvestmentKeyword(generated)
                   THEN InvestmentRefusal ELSE PredictionRefusal)

C3_Witness ==
  /\ ProcessQueryReturned
  /\ OccursIgnoringCase(generated, KwPrediccion)
  /\ ~HasInvestmentKeyword(generated)
  /\ response = PredictionRefusal

\* What evaluate does on n pairs when nothing fails, in order.
RECURSIVE LoopSteps(_)
LoopSteps(n) ==
  IF n = 0 THEN <<>>
  ELSE LoopSteps(n - 1)
       \o <<Step("time.sleep(6)", n), Step("process_query", n),
            Step("Evaluator.evaluate", n)>>

IsPrefix(s, t) == Len(s) <= Len(t) /\ s = SubSeq(t, 1, Len(s))

\* C7: evaluate handles the pairs one at a time in input order (sleep 6 s,
\* process_query, Evaluator.evaluate, then the next pair); when it returns
\* it returns one result per pair, the i-th carrying the i-th question and
\* expected answer, and the summary was written exactly once, after the last
\* evaluation.
C7_SequentialInOrder ==
  InEvaluate =>
    LET n == Len(call.sample_questions)
        whole == LoopSteps(n) \o <<Step("write summary", n)>>
    IN /\ IsPrefix(steps, whole)
       /\ Len(results) = Cardinality({k \in DOMAIN steps :
                                        steps[k].op = "Evaluator.evaluate"})
       /\ \A i \in DOMAIN results :
            /\ results[i].question = call.sample_questions[i].question
            /\ results[i].expected_answer = call.sample_questions[i].answer
       /\ file_writes = Cardinality({k \in DOMAIN steps :
                                       steps[k].op = "write summary"})
       /\ ret.kind = "return" =>
            /\ steps = whole
            /\ ret.value = results
            /\ Len(ret.value) = n
            /\ file_writes = 1

C7_Witness ==
  /\ InEvaluate
  /\ ret.kind = "return"
  /\ Len(ret.value) = 2
  /\ ret.value[1].question # ret.value[2].question
  /\ file_writes = 1

\* C8 as stated: a 6-second and a 10-second delay precede every rerank
\* request, counted from the entry of _rerank or from the previous request.
C8_BothDelaysBeforeEveryAttempt ==
  pc = "rerank_request" => (6 \in Range(slept) /\ 10 \in Range(slept))

\* C8 amended: the 10-second delay comes right before every request; the
\* 6-second delay comes once, before the first request only; the k-th retry
\* is preceded by the back-off of 10 * k seconds and then the 10-second delay.
C8_DelaysBeforeAttempts ==
  pc = "rerank_request" =>
    slept = (IF attempt = 0 THEN <<6, 10>> ELSE <<10 * attempt, 10>>)

C8_Witness ==
  /\ pc = "rerank_request"
  /\ attempt = 2
  /\ slept = <<20, 10>>

\* C10: when, inside evaluate, retrieval for the i-th question is rate-limited
\* on all 5 requests, the fatal error ends evaluate: no later question is
\* taken up, nothing is returned (the i - 1 results collected are not handed
\* out), and the summary file is not written.
C10_FatalErrorEndsEvaluate ==
  (InEvaluate /\ pc \notin RerankStates /\ rate_limited = 5) =>
    /\ pc = "done"
    /\ ret = Raise(RerankExhaustedError)
    /\ file_writes = 0
    /\ summary_file = <<>>
    /\ IsPrefix(steps, LoopSteps(idx))
    /\ steps[Len(steps)] = Step("process_query", idx)
    /\ Len(results) = idx - 1
    /\ ~ENABLED Next

C10_Witness ==
  /\ InEvaluate
  /\ ret = Raise(RerankExhaustedError)
  /\ idx = 2
  /\ Len(results) = 1
  /\ Len(call.sample_questions) = 2
  /\ file_writes = 0

====
